---- MODULE Spec2Model ----
(***************************************************************************)
(* Model of simplecoin/utils.py: the signed-command path                   *)
(* (verify_message, validate_message_vals).                                *)
(*                                                                         *)
(* A message is modelled as the result of message.split("\t") followed by  *)
(* line.split(" ") on every line: a sequence of lines, each a sequence of  *)
(* string tokens.  Times are whole seconds since 2024-01-01 00:00:00 UTC.  *)
(* Decimal values are integers in fixed point (see DecimalOf / Quantize).  *)
(***************************************************************************)
EXTENDS Integers, Sequences, FiniteSets, TLC

(***************************************************************************)
(* Bounds of the model                                                     *)
(***************************************************************************)
\* number of command lines in front of the Generated/Only trailer
MaxCmdLines == 2

(***************************************************************************)
(* Program constants                                                       *)
(***************************************************************************)
\* datetime.timedelta keeps days and seconds apart; .seconds is in 0..86399
SecondsPerDay == 86400
\* current_app.config.get('message_expiry', 90660)
DefaultMessageExpiry == 90660
\* len(addr) != 34
AddrLen == 34

\* Python values that are not strings, kept apart from every message token
PyFalse == "<False>"
PyZero == "<0>"

(***************************************************************************)
(* Tokens of the messages that are explored                                *)
(***************************************************************************)
GoodAddr == "1A1zP1eP5QGefi2DMPTfTL5SLmv7DivfNa"
ShortAddr == "1A1zP1eP5QGefi2DMPTfTL5SLmv7Divf"
BadAddr == "LA1zP1eP5QGefi2DMPTfTL5SLmv7DivfNx"

\* len() of the address tokens
StrLen(s) ==
  CASE s = GoodAddr -> 34
    [] s = ShortAddr -> 32
    [] s = BadAddr -> 34
    [] OTHER -> 0

\* Decimal(s) of a token, in thousandths; NotANumber stands for the
\* decimal.InvalidOperation that Decimal() raises on a non-numeric string
NotANumber == "InvalidOperation"
IsNumeric(s) == s \in {PyZero, "0", "50", "100", "150", "-1", "12.345"}
DecimalOf(s) ==
  CASE s = PyZero -> 0
    [] s = "0" -> 0
    [] s = "50" -> 50000
    [] s = "100" -> 100000
    [] s = "150" -> 150000
    [] s = "-1" -> -1000
    [] s = "12.345" -> 12345
    [] OTHER -> 0

\* Decimal.quantize(Decimal('0.01')): thousandths to hundredths, rounding
\* half to even (the default context)
Quantize(th) ==
  LET q == th \div 10
      r == th % 10
  IN  IF r > 5 \/ (r = 5 /\ q % 2 = 1) THEN q + 1 ELSE q

\* strptime('%Y-%m-%d %H:%M:%S.%f %Z') on the three tokens of a Generated line
DateOk(d) == d \in {"2024-01-01", "2024-01-02", "2024-01-03"}
DayOf(d) ==
  CASE d = "2024-01-01" -> 0
    [] d = "2024-01-02" -> 1
    [] d = "2024-01-03" -> 2
    [] OTHER -> 0
TimeOk(t) == t \in {"10:00:00.000", "10:53:20.000", "11:59:00.000", "12:01:00.000"}
TimeOf(t) ==
  CASE t = "10:00:00.000" -> 36000
    [] t = "10:53:20.000" -> 39200
    [] t = "11:59:00.000" -> 43140
    [] t = "12:01:00.000" -> 43260
    [] OTHER -> 0
ZoneOk(z) == z \in {"UTC", "GMT"}
StrpTimeOk(d, t, z) == DateOk(d) /\ TimeOk(t) /\ ZoneOk(z)
StrpTime(d, t, z) == DayOf(d) * SecondsPerDay + TimeOf(t)

\* datetime.datetime.utcnow() of the calls explored: 2024-01-02 12:00:00
NowValues == {SecondsPerDay + 43200}

(***************************************************************************)
(* Exceptions                                                              *)
(***************************************************************************)
Exc(type, msg, detail) == [type |-> type, msg |-> msg, detail |-> detail]
NoExc == Exc("none", "", "")
CommandException(msg, detail) == Exc("CommandException", msg, detail)

MsgInvalidCommand == "Invalid command given!"
MsgInvalidInfo == "Invalid information provided in the message field"
MsgNoStamp == "Time stamp not found in message!"
MsgTooOld == "Signature/Message is too old to be accepted!"
MsgWrongSite == "Invalid website!"
MsgRpcRejected == "Rejected by RPC server for reason"
MsgNoCoinserver == "Unable to communicate with coinserver!"
MsgBadSignature == "Invalid signature! Coinserver returned"
MsgBadAddress == "Invalid currency address passed!"
MsgNoDecimal == "Donate percentage unable to be converted to python Decimal!"
MsgOutOfBounds == "Donate percentage was out of bounds!"
MsgNotSaved == "Error saving new settings to the database!"

(***************************************************************************)
(* verify_message: parsing (lines 425-453)                                 *)
(***************************************************************************)
EmptyMap == [c \in {} |-> ""]
MapSet(m, k, v) == [c \in (DOMAIN m) \cup {k} |-> IF c = k THEN v ELSE m[c]]

\* update_dict, stamp and site as verify_message initialises them
InitUpdateDict ==
  [SETADDR |-> EmptyMap, DELADDR |-> <<>>, MAKEANON |-> PyFalse, SETDONATE |-> PyZero]
NoStamp == [found |-> FALSE, t |-> 0]
InitParse == [exc |-> NoExc, update_dict |-> InitUpdateDict, stamp |-> NoStamp, site |-> PyFalse]

\* the body of "for line in lines" for one line; st is the state of the
\* locals before the line.  An IndexError or ValueError leaves the loop and
\* becomes the CommandException of lines 449-453
ParseLine(st, parts) ==
  LET n == Len(parts)
      cmd == parts[1]
      ud == st.update_dict
      bad == [st EXCEPT !.exc = CommandException(MsgInvalidInfo, "")]
  IN  IF cmd \in {"SETADDR", "DELADDR", "MAKEANON", "SETDONATE"}
      THEN IF cmd = "SETADDR"
           THEN IF n < 3 THEN bad
                ELSE [st EXCEPT !.update_dict =
                        [ud EXCEPT !.SETADDR = MapSet(ud.SETADDR, parts[2], parts[3])]]
           ELSE IF n < 2 THEN bad
           ELSE IF cmd = "DELADDR"
                THEN [st EXCEPT !.update_dict =
                        [ud EXCEPT !.DELADDR = Append(ud.DELADDR, parts[2])]]
           ELSE IF cmd = "MAKEANON"
                THEN [st EXCEPT !.update_dict = [ud EXCEPT !.MAKEANON = parts[2]]]
                ELSE [st EXCEPT !.update_dict = [ud EXCEPT !.SETDONATE = parts[2]]]
      ELSE IF cmd = "Only"
      THEN IF n < 4 THEN bad ELSE [st EXCEPT !.site = parts[4]]
      ELSE IF cmd = "Generated"
      THEN IF n < 5 THEN bad
           ELSE IF ~StrpTimeOk(parts[3], parts[4], parts[5]) THEN bad
           ELSE [st EXCEPT !.stamp = [found |-> TRUE, t |-> StrpTime(parts[3], parts[4], parts[5])]]
      ELSE [st EXCEPT !.exc = CommandException(MsgInvalidCommand, "")]

\* the loop over the lines, stopping at the first exception
RECURSIVE ParseFrom(_, _, _)
ParseFrom(st, lines, i) ==
  IF i > Len(lines) \/ st.exc # NoExc THEN st
  ELSE ParseFrom(ParseLine(st, lines[i]), lines, i + 1)

ParseMessage(lines) == ParseFrom(InitParse, lines, 1)

\* Python truth value of site ("not site")
Truthy(s) == s \notin {PyFalse, ""}

\* (now - stamp).seconds: the seconds field of the normalised timedelta,
\* the day count is a separate field that the code does not read
TimedeltaSeconds(d) == d % SecondsPerDay

\* abs((now - stamp).seconds) > message_expiry
Abs(x) == IF x < 0 THEN -x ELSE x
TooOld(now_, stamp_, expiry) == Abs(TimedeltaSeconds(now_ - stamp_)) > expiry

(***************************************************************************)
(* validate_message_vals (lines 401-421)                                   *)
(***************************************************************************)
\* check_valid_currency is neither defined nor imported in utils.py: the
\* call at line 408 looks the name up in the module globals and the
\* builtins and raises NameError, whatever the address
check_valid_currency(addr) == Exc("NameError", "name 'check_valid_currency' is not defined", "")

\* the loop over set_addrs.iteritems(): the first iteration already raises
ValidateAddrs(set_addrs) ==
  IF DOMAIN set_addrs = {} THEN NoExc
  ELSE LET c == CHOOSE c \in DOMAIN set_addrs : TRUE
           r == check_valid_currency(set_addrs[c])
       IN  IF r.type # "none" THEN r
           ELSE IF \E k \in DOMAIN set_addrs : StrLen(set_addrs[k]) # AddrLen
                THEN CommandException(MsgBadAddress, "")
                ELSE NoExc

\* donate_perc = Decimal(donate_perc).quantize(Decimal('0.01')) / 100, as an
\* integer number of ten-thousandths
DonateFraction(s) == Quantize(DecimalOf(s))
\* 100.0 in ten-thousandths
OneHundred == 1000000

\* the try/except TypeError/else of lines 412-418: Decimal() raises
\* InvalidOperation (an ArithmeticError) on a non-numeric string, which the
\* except TypeError clause does not catch
ValidateDonate(s) ==
  IF ~IsNumeric(s) THEN Exc(NotANumber, "Invalid literal for Decimal", s)
  ELSE IF DonateFraction(s) > OneHundred \/ DonateFraction(s) < 0
       THEN CommandException(MsgOutOfBounds, "")
       ELSE NoExc

\* the result: the exception raised, or the tuple returned
validate_message_vals(ud) ==
  LET e1 == ValidateAddrs(ud.SETADDR)
      e2 == ValidateDonate(ud.SETDONATE)
  IN  IF e1 # NoExc THEN [exc |-> e1, args |-> <<>>]
      ELSE IF e2 # NoExc THEN [exc |-> e2, args |-> <<>>]
      ELSE [exc |-> NoExc,
            args |-> <<ud.SETADDR, ud.DELADDR, DonateFraction(ud.SETDONATE), ud.MAKEANON>>]

(***************************************************************************)
(* Inputs of the calls explored                                            *)
(***************************************************************************)
\* command lines
CmdLines ==
  { <<"SETADDR", "BTC", GoodAddr>>, <<"SETADDR", "BTC", ShortAddr>>,
    <<"SETADDR", "LTC", BadAddr>>, <<"DELADDR", "BTC">>, <<"DELADDR", "LTC">>,
    <<"MAKEANON", "True">>, <<"SETDONATE", "50">>, <<"SETDONATE", "100">>,
    <<"SETDONATE", "0">>, <<"SETDONATE", "12.345">>, <<"SETDONATE", "150">>,
    <<"SETDONATE", "-1">>, <<"SETDONATE", "abc">>,
    <<"BOGUS">> }

\* "Generated at <date> <time> <tz>" lines: 60 s, 4000 s and 26 h before
\* the current time, 60 s after it, and one with an unknown time zone
GeneratedLines ==
  { <<"Generated", "at", "2024-01-02", "11:59:00.000", "UTC">>,
    <<"Generated", "at", "2024-01-02", "10:53:20.000", "UTC">>,
    <<"Generated", "at", "2024-01-01", "10:00:00.000", "UTC">>,
    <<"Generated", "at", "2024-01-02", "12:01:00.000", "UTC">>,
    <<"Generated", "at", "2024-01-02", "11:59:00.000", "XYZ">> }

\* "Only valid for <site>" lines
OnlyLines ==
  { <<"Only", "valid", "for", "PoolSite">>, <<"Only", "valid", "for", "OtherSite">>,
    <<"Only", "valid">> }

Optional(S) == {<<>>} \cup {<<l>> : l \in S}
SeqsUpTo(S, n) == UNION {[1..k -> S] : k \in 0..n}
Messages ==
  {c \o g \o o : c \in SeqsUpTo(CmdLines, MaxCmdLines),
                 g \in Optional(GeneratedLines), o \in Optional(OnlyLines)}

Addresses == {"1MinerPayoutAddress"}
\* current_app.config: message_expiry left at its default, or set to an hour
Configs ==
  [message_expiry : {DefaultMessageExpiry, 3600}, site_title : {"PoolSite"}]

\* what curr.coinserv.verifymessage does: returns a truth value, raises
\* CoinRPCException with a reason, or raises anything else
OracleOutcomes ==
  { [kind |-> "return", val |-> TRUE, text |-> ""],
    [kind |-> "return", val |-> FALSE, text |-> ""],
    [kind |-> "CoinRPCException", val |-> FALSE, text |-> "Malformed base64 encoding"],
    [kind |-> "Exception", val |-> FALSE, text |-> "Connection refused 10.0.0.5:8332"] }
NoOutcome == [kind |-> "none", val |-> FALSE, text |-> ""]
\* what UserSettings.update raises when the write fails
SQLAlchemyError == [kind |-> "SQLAlchemyError", val |-> FALSE, text |-> "IntegrityError"]

(***************************************************************************)
(* State                                                                   *)
(***************************************************************************)
VARIABLES
  pc,           \* position in verify_message
  config,       \* current_app.config
  address,      \* arguments of the call
  message,
  update_dict,  \* locals of verify_message
  stamp,
  site,
  now,
  res,
  args,
  raised,       \* the exception the call ended with, NoExc otherwise
  caught,       \* the exception an except clause of the call has caught
  calls,        \* calls made to the coinserver, UserSettings and db.session
  pending,      \* UserSettings writes in the open transaction
  settings      \* committed UserSettings writes

\* the state of the share aggregation and of its cache
VARIABLES
  clock,        \* the current time, what utcnow() returns
  records,      \* the share and reject tables
  online,       \* the addr_online_<address> entry of the cache, the liveness feed
  user_row,     \* the UserSettings row of the address
  cache,        \* the entries of the cached and memoized functions
  redis,        \* the current_block_<suffix> hashes of the counter store
  workers,      \* the mapping compress_typ accumulates into
  todo,         \* the records the loop of compress_typ has still to visit
  ret           \* the last call of the aggregation and what it returned

aggregation == <<clock, records, online, user_row, cache, redis, workers, todo, ret>>
verification == <<pc, config, address, message, update_dict, stamp, site, now, res, args,
                  raised, caught, calls, pending, settings>>

vars == <<pc, config, address, message, update_dict, stamp, site, now, res, args,
          raised, caught, calls, pending, settings, aggregation>>

\* no aggregation call has been made
NoRet == [fn |-> "none"]
AggregationIdle ==
  /\ clock = 0
  /\ records = {}
  /\ online = <<>>
  /\ user_row = <<>>
  /\ cache = <<>>
  /\ redis = <<>>
  /\ workers = <<>>
  /\ todo = {}
  /\ ret = NoRet

locals == <<update_dict, stamp, site, now, res, args>>
inputs == <<config, address, message>>
store == <<pending, settings>>

Init ==
  /\ pc = "idle"
  /\ config \in Configs
  /\ address = ""
  /\ message = <<>>
  /\ update_dict = InitUpdateDict
  /\ stamp = NoStamp
  /\ site = PyFalse
  /\ now = 0
  /\ res = NoOutcome
  /\ args = <<>>
  /\ raised = NoExc
  /\ caught = NoOutcome
  /\ calls = <<>>
  /\ pending = <<>>
  /\ settings = <<>>
  /\ AggregationIdle

\* raise e: the call ends
Raise(e) == pc' = "raised" /\ raised' = e

\* verify_message(address, curr, message, signature): lines 424-428
Call ==
  /\ pc = "idle"
  /\ address' \in Addresses
  /\ message' \in Messages
  /\ pc' = "parse"
  /\ UNCHANGED <<aggregation, config, locals, raised, caught, calls, store>>

\* lines 429-453
Parse ==
  /\ pc = "parse"
  /\ LET r == ParseMessage(message)
     IN  /\ update_dict' = r.update_dict
         /\ stamp' = r.stamp
         /\ site' = r.site
         /\ IF r.exc # NoExc
            THEN Raise(r.exc)
            ELSE pc' = "check_stamp" /\ UNCHANGED raised
  /\ UNCHANGED <<aggregation, inputs, now, res, args, caught, calls, store>>

\* lines 454-456
CheckStamp ==
  /\ pc = "check_stamp"
  /\ IF ~stamp.found
     THEN Raise(CommandException(MsgNoStamp, ""))
     ELSE pc' = "check_fresh" /\ UNCHANGED raised
  /\ UNCHANGED <<aggregation, inputs, locals, caught, calls, store>>

\* CheckFresh with the site compared before the age of the stamp
CheckFreshAfterSite ==
  /\ pc = "check_fresh"
  /\ now' \in NowValues
  /\ IF ~Truthy(site) \/ site # config.site_title
     THEN Raise(CommandException(MsgWrongSite, ""))
     ELSE IF TooOld(now', stamp.t, config.message_expiry)
          THEN Raise(CommandException(MsgTooOld, ""))
          ELSE pc' = "check_site" /\ UNCHANGED raised
  /\ UNCHANGED <<aggregation, inputs, update_dict, stamp, site, res, args, caught, calls, store>>

\* lines 458-461
CheckFresh ==
  /\ pc = "check_fresh"
  /\ now' \in NowValues
  /\ IF TooOld(now', stamp.t, config.message_expiry)
     THEN Raise(CommandException(MsgTooOld, ""))
     ELSE pc' = "check_site" /\ UNCHANGED raised
  /\ UNCHANGED <<aggregation, inputs, update_dict, stamp, site, res, args, caught, calls, store>>

\* CheckSite with the comparison against site_title left out
CheckSiteAnyToken ==
  /\ pc = "check_site"
  /\ IF ~Truthy(site)
     THEN Raise(CommandException(MsgWrongSite, ""))
     ELSE pc' = "call_oracle" /\ UNCHANGED raised
  /\ UNCHANGED <<aggregation, inputs, locals, caught, calls, store>>

\* lines 463-465
CheckSite ==
  /\ pc = "check_site"
  /\ IF ~Truthy(site) \/ site # config.site_title
     THEN Raise(CommandException(MsgWrongSite, ""))
     ELSE pc' = "call_oracle" /\ UNCHANGED raised
  /\ UNCHANGED <<aggregation, inputs, locals, caught, calls, store>>

\* CallOracle with the text of the fault put in the generic error
CallOracleLeaksDetail ==
  /\ pc = "call_oracle"
  /\ calls' = Append(calls, "verifymessage")
  /\ \E o \in OracleOutcomes :
       CASE o.kind = "return" ->
              res' = o /\ pc' = "check_res" /\ UNCHANGED <<raised, caught>>
         [] o.kind = "CoinRPCException" ->
              caught' = o /\ Raise(CommandException(MsgRpcRejected, o.text)) /\ UNCHANGED res
         [] OTHER ->
              caught' = o /\ Raise(CommandException(MsgNoCoinserver, o.text)) /\ UNCHANGED res
  /\ UNCHANGED <<aggregation, inputs, update_dict, stamp, site, now, args, store>>

\* lines 470-477
CallOracle ==
  /\ pc = "call_oracle"
  /\ calls' = Append(calls, "verifymessage")
  /\ \E o \in OracleOutcomes :
       CASE o.kind = "return" ->
              res' = o /\ pc' = "check_res" /\ UNCHANGED <<raised, caught>>
         [] o.kind = "CoinRPCException" ->
              caught' = o /\ Raise(CommandException(MsgRpcRejected, o.text)) /\ UNCHANGED res
         [] OTHER ->
              caught' = o /\ Raise(CommandException(MsgNoCoinserver, "")) /\ UNCHANGED res
  /\ UNCHANGED <<aggregation, inputs, update_dict, stamp, site, now, args, store>>

\* CheckRes with the two branches of "if res" exchanged
CheckResInverted ==
  /\ pc = "check_res"
  /\ IF ~res.val
     THEN pc' = "validate" /\ UNCHANGED raised
     ELSE Raise(CommandException(MsgBadSignature, "True"))
  /\ UNCHANGED <<aggregation, inputs, locals, caught, calls, store>>

\* lines 479, 488-490
CheckRes ==
  /\ pc = "check_res"
  /\ IF res.val
     THEN pc' = "validate" /\ UNCHANGED raised
     ELSE Raise(CommandException(MsgBadSignature, "False"))
  /\ UNCHANGED <<aggregation, inputs, locals, caught, calls, store>>

\* Validate with the exception of validate_message_vals swallowed and the
\* unvalidated fields passed on
ValidateSwallows ==
  /\ pc = "validate"
  /\ LET r == validate_message_vals(update_dict)
     IN  /\ args' = IF r.exc # NoExc
                    THEN <<update_dict.SETADDR, update_dict.DELADDR, 0, update_dict.MAKEANON>>
                    ELSE r.args
         /\ pc' = "update"
         /\ UNCHANGED raised
  /\ UNCHANGED <<aggregation, inputs, update_dict, stamp, site, now, res, caught, calls, store>>

\* line 480
Validate ==
  /\ pc = "validate"
  /\ LET r == validate_message_vals(update_dict)
     IN  IF r.exc # NoExc
         THEN Raise(r.exc) /\ UNCHANGED args
         ELSE /\ args' = r.args
              /\ pc' = "update"
             
              /\ UNCHANGED raised
  /\ UNCHANGED <<aggregation, inputs, update_dict, stamp, site, now, res, caught, calls, store>>

\* what UserSettings.update(address, *args) is called with
UpdateCall(a, ar) ==
  [user |-> a, set_addrs |-> ar[1], del_addrs |-> ar[2], donate_perc |-> ar[3], anon |-> ar[4]]

\* Update without the except SQLAlchemyError clause: the failure leaves the
\* call at once
UpdateNoRollback ==
  /\ pc = "update"
  /\ calls' = Append(calls, "update")
  /\ \/ /\ pending' = Append(pending, UpdateCall(address, args))
        /\ pc' = "commit"
        /\ UNCHANGED <<caught, raised>>
     \/ /\ pending' = pending
        /\ caught' = SQLAlchemyError
        /\ Raise(Exc("SQLAlchemyError", SQLAlchemyError.text, ""))
  /\ UNCHANGED <<aggregation, inputs, locals, settings>>

\* lines 481-483: UserSettings.update either writes in the open transaction
\* or raises SQLAlchemyError
Update ==
  /\ pc = "update"
  /\ calls' = Append(calls, "update")
  /\ \/ /\ pending' = Append(pending, UpdateCall(address, args))
        /\ pc' = "commit"
        /\ UNCHANGED caught
     \/ /\ pending' = pending
        /\ caught' = SQLAlchemyError
        /\ pc' = "rollback"
  /\ UNCHANGED <<aggregation, inputs, locals, raised, settings>>

\* lines 486-487
Commit ==
  /\ pc = "commit"
  /\ calls' = Append(calls, "commit")
  /\ settings' = settings \o pending
  /\ pending' = <<>>
  /\ pc' = "returned"
  /\ UNCHANGED <<aggregation, inputs, locals, raised, caught>>

\* lines 483-485
Rollback ==
  /\ pc = "rollback"
  /\ calls' = Append(calls, "rollback")
  /\ pending' = <<>>
  /\ Raise(CommandException(MsgNotSaved, ""))
  /\ UNCHANGED <<aggregation, inputs, locals, caught, settings>>

Next ==
  \/ Call
  \/ Parse
  \/ CheckStamp
  \/ CheckFresh
  \/ CheckSite
  \/ CallOracle
  \/ CheckRes
  \/ Validate
  \/ Update
  \/ Commit
  \/ Rollback

Spec == Init /\ [][Next]_vars

(***************************************************************************)
(* Properties                                                              *)
(***************************************************************************)
Range(q) == {q[i] : i \in 1..Len(q)}
Count(q, x) == Cardinality({i \in 1..Len(q) : q[i] = x})
Done == pc \in {"returned", "raised"}
\* the freshness check of this call has run
FreshChecked == now \in NowValues
\* the call is past the freshness check, which let the message through
FreshPassed == FreshChecked /\ ~TooOld(now, stamp.t, config.message_expiry)
SiteMatches == Truthy(site) /\ site = config.site_title
NothingWritten == pending = <<>> /\ settings = <<>>
\* the addresses that pass the currency-specific check the spec describes
ChecksumOk(a) == a \in {GoodAddr, ShortAddr}

\* C1: UserSettings.update is called only after the message parsed, a
\* timestamp was found, the freshness check passed, the site token matched,
\* the oracle returned true and validate_message_vals returned; a call that
\* raised before the update has written nothing.
C1_UpdateOnlyAfterAllChecks ==
  /\ ("update" \in Range(calls) \/ ~NothingWritten) =>
       /\ ParseMessage(message).exc = NoExc
       /\ stamp.found
       /\ FreshPassed
       /\ SiteMatches
       /\ calls[1] = "verifymessage"
       /\ res.kind = "return" /\ res.val
       /\ validate_message_vals(update_dict).exc = NoExc
       /\ args = validate_message_vals(update_dict).args
  /\ (pc = "raised" /\ "update" \notin Range(calls)) => NothingWritten

C1_Witness ==
  /\ pc = "returned"
  /\ Len(settings) = 1
  /\ update_dict.SETDONATE = "50"

\* C2: a message whose timestamp is more than message_expiry seconds before
\* the current time is rejected as expired, the oracle is not called and
\* nothing is committed.
C2_ExpiredRejected ==
  (FreshChecked /\ now - stamp.t > config.message_expiry) =>
    /\ pc = "raised"
    /\ raised = CommandException(MsgTooOld, "")
    /\ calls = <<>>
    /\ NothingWritten

C4_FalseOracleLeavesSettings ==
  (res.kind = "return" /\ ~res.val /\ pc # "check_res") =>
    /\ pc = "raised"
    /\ raised.type = "CommandException"
    /\ raised.msg = MsgBadSignature
    /\ calls = <<"verifymessage">>
    /\ args = <<>>
    /\ NothingWritten

C4_Witness ==
  /\ pc = "raised"
  /\ raised.msg = MsgBadSignature
  /\ res.kind = "return"
  /\ ~res.val

\* C5: validate_message_vals accepts a SETDONATE percentage exactly when
\* percent/100 lies in [0,1] (0 and 100 accepted, below 0 and above 100
\* rejected as out of bounds), so no fraction outside [0,1] reaches
\* UserSettings.update.  Fractions are in ten-thousandths.
C5_DonationWithinUnitInterval ==
  /\ Len(args) = 4 => (args[3] >= 0 /\ args[3] <= 10000)
  /\ \A i \in 1..Len(pending) : pending[i].donate_perc \in 0..10000
  /\ \A i \in 1..Len(settings) : settings[i].donate_perc \in 0..10000
  /\ (pc = "raised" /\ raised.msg = MsgOutOfBounds) =>
       (DecimalOf(update_dict.SETDONATE) < 0 \/ DecimalOf(update_dict.SETDONATE) > 100000)

\* C6: a SETADDR address that is not 34 characters long, or that is 34
\* characters long and fails the currency check, makes validation raise the
\* invalid-address error, and nothing is written.
C6_BadAddressRejected ==
  (/\ res.kind = "return" /\ res.val
   /\ pc \notin {"check_res", "validate"}
   /\ \E k \in DOMAIN update_dict.SETADDR :
        StrLen(update_dict.SETADDR[k]) # AddrLen \/ ~ChecksumOk(update_dict.SETADDR[k])) =>
    /\ pc = "raised"
    /\ raised = CommandException(MsgBadAddress, "")
    /\ NothingWritten

\* the command UserSettings.update has to receive for the parsed message
ParsedCommand ==
  [user |-> address,
   set_addrs |-> ParseMessage(message).update_dict.SETADDR,
   del_addrs |-> ParseMessage(message).update_dict.DELADDR,
   donate_perc |-> DecimalOf(ParseMessage(message).update_dict.SETDONATE) \div 10,
   anon |-> ParseMessage(message).update_dict.MAKEANON]

\* the fields of the parsed command are valid as the spec describes it
FieldsValid ==
  LET ud == ParseMessage(message).update_dict
  IN  /\ \A k \in DOMAIN ud.SETADDR :
           StrLen(ud.SETADDR[k]) = AddrLen /\ ChecksumOk(ud.SETADDR[k])
      /\ IsNumeric(ud.SETDONATE)
      /\ DecimalOf(ud.SETDONATE) >= 0 /\ DecimalOf(ud.SETDONATE) <= 100000

\* C7: a well-formed message with a timestamp within the max age and the
\* configured site token, whose fields validate and for which the oracle
\* returned true, ends with UserSettings.update called once with exactly
\* the parsed command, a commit and a return without an error.
C7_ValidMessageCommits ==
  (/\ Done
   /\ ParseMessage(message).exc = NoExc
   /\ stamp.found
   /\ FreshChecked /\ Abs(now - stamp.t) <= config.message_expiry
   /\ SiteMatches
   /\ res.kind = "return" /\ res.val
   /\ FieldsValid) =>
    /\ pc = "returned"
    /\ raised = NoExc
    /\ settings = <<ParsedCommand>>
    /\ calls = <<"verifymessage", "update", "commit">>

\* C8: a SETDONATE value that is not a decimal number makes validation
\* raise the "unable to convert" CommandException, which is the exception
\* verify_message ends with, and nothing is written.
C8_UnparsableDonateIsCommandException ==
  (/\ res.kind = "return" /\ res.val
   /\ pc \notin {"check_res", "validate"}
   /\ DOMAIN update_dict.SETADDR = {}
   /\ ~IsNumeric(update_dict.SETDONATE)) =>
    /\ pc = "raised"
    /\ raised = CommandException(MsgNoDecimal, "")
    /\ NothingWritten

\* C9: when the oracle call raises, nothing is committed: a
\* CoinRPCException gives an error that carries its reason, any other
\* exception gives the unable-to-communicate error without the detail of
\* the fault, and in both cases update is not called and the oracle is
\* called once only.
C9_OracleFailureNeverCommits ==
  /\ caught.kind = "CoinRPCException" =>
       raised = CommandException(MsgRpcRejected, caught.text)
  /\ caught.kind = "Exception" =>
       /\ raised = CommandException(MsgNoCoinserver, "")
       /\ raised.detail # caught.text
  /\ caught.kind \in {"CoinRPCException", "Exception"} =>
       /\ pc = "raised"
       /\ calls = <<"verifymessage">>
       /\ NothingWritten
  /\ Count(calls, "verifymessage") <= 1

C9_Witness ==
  /\ pc = "raised"
  /\ caught.kind = "Exception"
  /\ raised.msg = MsgNoCoinserver

Rank(p) ==
  CASE p = "idle" -> 0
    [] p = "parse" -> 1
    [] p = "check_stamp" -> 2
    [] p = "check_fresh" -> 3
    [] p = "check_site" -> 4
    [] p = "call_oracle" -> 5
    [] p = "check_res" -> 6
    [] p = "validate" -> 7
    [] p = "update" -> 8
    [] p \in {"commit", "rollback"} -> 9
    [] OTHER -> 10

\* C15: verify_message runs its steps once, in the order parse, time stamp
\* present, freshness, site, oracle call, oracle result, validation,
\* commit: every step moves the call forward (none is taken a second
\* time), the error reported is that of the first step that failed (a
\* stamp the freshness step refuses is reported as too old whatever the
\* site line says, a wrong site is reported only for a stamp that was found
\* and let through), and the oracle is called at most once and only after
\* the stamp was found, let through and the site matched.
C15_SinglePassFirstFailure ==
  /\ [](/\ calls \in {<<>>, <<"verifymessage">>, <<"verifymessage", "update">>,
                      <<"verifymessage", "update", "commit">>,
                      <<"verifymessage", "update", "rollback">>}
        /\ calls # <<>> => stamp.found /\ FreshPassed /\ SiteMatches
        /\ raised.msg = MsgNoStamp => ~stamp.found /\ ~FreshChecked /\ calls = <<>>
        /\ raised.msg = MsgTooOld => stamp.found /\ FreshChecked /\ calls = <<>>
        /\ Done /\ FreshChecked /\ ~FreshPassed => raised.msg = MsgTooOld
        /\ raised.msg = MsgWrongSite =>
             stamp.found /\ FreshPassed /\ ~SiteMatches /\ calls = <<>>
        /\ raised.msg \in {MsgRpcRejected, MsgNoCoinserver, MsgBadSignature} =>
             calls = <<"verifymessage">>)
  /\ [][Rank(pc') > Rank(pc)]_vars

\* a message both refused by the freshness step and for another site is
\* reported as too old
C15_Witness ==
  /\ pc = "raised"
  /\ raised.msg = MsgTooOld
  /\ Truthy(site)
  /\ site # config.site_title
  /\ calls = <<>>

\* C16: the freshness step treats a stamp d seconds ahead of the current
\* time as it treats one d seconds behind it: the call is refused as too
\* old exactly when d exceeds message_expiry.
C16_FutureStampsAsPastStamps ==
  FreshChecked /\ stamp.t > now =>
    LET d == stamp.t - now
        refused == pc = "raised" /\ raised.msg = MsgTooOld
    IN  /\ refused <=> d > config.message_expiry
        /\ refused <=> TooOld(now, now - d, config.message_expiry)

(***************************************************************************)
(* Share aggregation: the record tables                                    *)
(***************************************************************************)
\* more records than this are not put in the tables
MaxRecords == 2

\* the slice of a record type and the span get_typ looks back over
\* (floor_time and window of the share models)
Slice(typ) ==
  CASE typ \in {"OneMinuteShare", "OneMinuteReject", "OneMinuteHashrate"} -> 60
    [] typ \in {"FiveMinuteShare", "FiveMinuteReject"} -> 300
    [] OTHER -> 3600
floor_time(typ, t) == t - (t % Slice(typ))
Window(typ) ==
  CASE typ \in {"OneMinuteShare", "OneMinuteReject"} -> 3600
    [] typ \in {"FiveMinuteShare", "FiveMinuteReject"} -> SecondsPerDay
    [] OTHER -> 30 * SecondsPerDay

\* the times of day explored: half past every hour and 30 s, and 10:00:00,
\* on the fourth day of the time scale
Clocks ==
  {3 * SecondsPerDay + h * 3600 + 1830 : h \in 0..23} \cup {3 * SecondsPerDay + 36000}

Share(typ, user, worker, time, value) ==
  [typ |-> typ, user |-> user, worker |-> worker, time |-> time, value |-> value]

\* the records that may be in the tables at time c; m is the start of the
\* current minute
RecordsAt(c) ==
  LET m == c - (c % 60)
  IN  { Share("OneMinuteShare", "addrA", "w1", m - 720, 1),
        Share("OneMinuteShare", "addrA", "w1", m - 300, 2),
        Share("OneMinuteShare", "addrA", "w1", m - 120, 4),
        Share("OneMinuteShare", "addrA", "w2", m - 7200, 8),
        Share("FiveMinuteShare", "addrA", "w1", m - 600, 16),
        Share("FiveMinuteShare", "addrA", "w2", m - 1800, 32),
        Share("OneMinuteReject", "addrA", "w1", m - 300, 3),
        Share("FiveMinuteReject", "addrA", "w2", m - 600, 5),
        Share("OneMinuteShare", "addrB", "w9", m - 300, 64),
        Share("OneMinuteShare", "pool", "", m - 720, 600),
        Share("OneMinuteShare", "pool", "", m - 300, 1200),
        Share("OneMinuteShare", "pool", "", m - 120, 2400),
        Share("FiveMinuteShare", "pool", "", m - 600, 90),
        Share("FiveMinuteShare", "pool", "", m - 2 * SecondsPerDay, 70),
        Share("FiveMinuteReject", "pool_stale", "", m - 600, 10),
        Share("OneHourShare", "pool", "", m - 2 * SecondsPerDay, 900),
        Share("OneHourReject", "pool_stale", "", m - 2 * SecondsPerDay, 100) }

RECURSIVE SetsUpTo(_, _)
SetsUpTo(U, n) ==
  IF n = 0 THEN {{}}
  ELSE LET P == SetsUpTo(U, n - 1) IN P \cup {S \cup {r} : S \in P, r \in U}

\* sum([r.value for r in rs])
RECURSIVE SumValues(_)
SumValues(rs) ==
  IF rs = {} THEN 0
  ELSE LET r == CHOOSE r \in rs : TRUE IN r.value + SumValues(rs \ {r})

\* an argument that is left out or None
None == <<>>

\* get_typ(typ, address, window, worker) at time t: the rows of the query
get_typ(typ, addr, window, worker, t) ==
  { r \in records :
      /\ r.typ = typ
      /\ (addr = None \/ <<r.user>> = addr)
      /\ (worker = None \/ <<r.worker>> = worker)
      /\ (window = FALSE \/ r.time >= floor_time(typ, t) - Window(typ)) }

(***************************************************************************)
(* get_pool_acc_rej and get_pool_eff (lines 74-97, 344-350)                *)
(***************************************************************************)
\* the arguments of get_pool_eff explored: none, one day, three days
Timedeltas == {None, <<SecondsPerDay>>, <<3 * SecondsPerDay>>}

\* the tuple (reject_total, accept_total) that get_pool_acc_rej returns
get_pool_acc_rej(timedelta, t) ==
  LET td == IF timedelta = None THEN 30 * SecondsPerDay ELSE timedelta[1]
      rej_typ == IF td <= SecondsPerDay THEN "FiveMinuteReject" ELSE "OneHourReject"
      acc_typ == IF td <= SecondsPerDay THEN "FiveMinuteShare" ELSE "OneHourShare"
      one_month_ago == t - td
      rejects == {r \in records : r.typ = rej_typ /\ r.time >= one_month_ago /\ r.user = "pool_stale"}
      accepts == {r \in records : r.typ = acc_typ /\ r.time >= one_month_ago /\ r.user = "pool"}
  IN  <<SumValues(rejects), SumValues(accepts)>>

\* a float as the quotient of two integers
Ratio(n, d) == [num |-> n, den |-> d]
ZeroDivisionError == [num |-> 0, den |-> 0]

\* get_pool_eff with get_pool_acc_rej's tuple unpacked as (acc, rej)
get_pool_eff_swapped(timedelta, t) ==
  LET acc == get_pool_acc_rej(timedelta, t)[1]
      rej == get_pool_acc_rej(timedelta, t)[2]
  IN  IF rej = 0 /\ acc = 0 THEN Ratio(100, 1) ELSE Ratio(acc * 100, acc + rej)

\* rej, acc = get_pool_acc_rej(timedelta); 100, or (float(acc) / (acc + rej)) * 100
get_pool_eff(timedelta, t) ==
  LET rej == get_pool_acc_rej(timedelta, t)[1]
      acc == get_pool_acc_rej(timedelta, t)[2]
  IN  IF rej = 0 /\ acc = 0 THEN Ratio(100, 1) ELSE Ratio(acc * 100, acc + rej)

(***************************************************************************)
(* last_10_shares and collect_user_stats (lines 251-259, 269-341)          *)
(***************************************************************************)
\* current_app.config.get('hashes_per_share', 65536)
HashesPerShare == 65536

\* (shares_to_hashes(shares) / 1000000) / 600
Last10Hashrate(shares) == Ratio(HashesPerShare * shares, 1000000 * 600)

\* last_10_shares(user) at time t
last_10_shares(user, t) ==
  LET twelve_ago == t - 12 * 60
      two_ago == t - 2 * 60
      minutes == {r \in records : r.typ = "OneMinuteShare" /\ r.user = user
                                    /\ r.time > twelve_ago /\ r.time < two_ago}
  IN  SumValues(minutes)

\* the worker names that occur, in the order sorted() puts them
NameOrder == <<"w1", "w2", "w3", "w9">>

\* current_app.config['monitor_addrs'][host]['stratum'], '' on KeyError
HostsConfigured == {"host1"}
StratumOf(host) == IF host \in HostsConfigured THEN "stratum+tcp://" \o host ELSE ""

\* the liveness feeds explored: no entry, a worker on a configured host, a
\* worker on an unknown host
Feeds == { <<>>, << <<"w1", "host1">> >>, << <<"w3", "host7">> >> }
\* the UserSettings rows explored: no row, a row with 5 percent
UserRows == { <<>>, <<[hr_perc |-> 5]>> }

\* the test of line 286 with the bound two_ago included
InLast10Inclusive(r, now_) == r.time >= now_ - 12 * 60 /\ r.time <= now_ - 2 * 60

\* line 286: m.time >= twelve_ago and m.time < two_ago
InLast10(r, now_) == r.time >= now_ - 12 * 60 /\ r.time < now_ - 2 * 60

\* the names of the feed with the loop of lines 296-302 left out
FeedNamesIgnored(feed) == {}

\* the names the loop of lines 296-302 visits
FeedNames(feed) == {feed[i][1] : i \in 1..Len(feed)}

\* the server of the last feed entry of a worker, {} without one
RECURSIVE ServerOf(_, _, _)
ServerOf(feed, name, i) ==
  IF i = 0 THEN "{}"
  ELSE IF feed[i][1] = name THEN StratumOf(feed[i][2])
  ELSE ServerOf(feed, name, i - 1)

\* the rows the two loops of lines 281-293 visit
FetchedShares(addr, t) ==
  get_typ("FiveMinuteShare", <<addr>>, TRUE, None, t)
    \cup get_typ("OneMinuteShare", <<addr>>, TRUE, None, t)
FetchedRejects(addr, t) ==
  get_typ("FiveMinuteReject", <<addr>>, TRUE, None, t)
    \cup get_typ("OneMinuteReject", <<addr>>, TRUE, None, t)

\* the entry of one worker after lines 273-310
WorkerStat(name, addr, t, feed) ==
  LET now_ == t - (t % 60)
      mine == {r \in FetchedShares(addr, t) : r.worker = name}
      accepted == SumValues(mine)
      rejected == SumValues({r \in FetchedRejects(addr, t) : r.worker = name})
      last10 == SumValues({r \in mine : InLast10(r, now_)})
  IN  [name |-> name,
       accepted |-> accepted,
       rejected |-> rejected,
       last_10_shares |-> last10,
       online |-> name \in FeedNames(feed),
       server |-> ServerOf(feed, name, Len(feed)),
       last_10_hashrate |-> Last10Hashrate(last10),
       efficiency |-> IF accepted # 0 \/ rejected # 0
                      THEN <<Ratio(100 * accepted, accepted + rejected)>>
                      ELSE None]

\* datetime.replace(minute=0, second=0, microsecond=0, hour=h) of time t
ReplaceHour(t, h) == t - (t % SecondsPerDay) + h * 3600
HourOf(t) == (t % SecondsPerDay) \div 3600

\* the dict collect_user_stats(address) returns at time t
collect_user_stats(addr, t, feed, row) ==
  LET names == {r.worker : r \in FetchedShares(addr, t) \cup FetchedRejects(addr, t)}
                 \cup FeedNames(feed)
      IsNamed(n) == n \in names
      sorted == SelectSeq(NameOrder, IsNamed)
      user_last_10_shares == last_10_shares(addr, t)
  IN  [workers |-> [i \in 1..Len(sorted) |-> WorkerStat(sorted[i], addr, t, feed)],
       donation_perc |-> IF row = <<>> THEN 0 ELSE row[1].hr_perc,
       last_10_shares |-> user_last_10_shares,
       last_10_hashrate |-> Last10Hashrate(user_last_10_shares),
       next_payout |-> ReplaceHour(t, 0),
       next_exchange |-> ReplaceHour(t, (HourOf(t) + 2) % 23),
       f_per |-> 2]

(***************************************************************************)
(* get_pool_hashrate (lines 209-220)                                       *)
(***************************************************************************)
Algos == {"scrypt", "x11"}

\* line 220: float(ten_min) / 600000
get_pool_hashrate_of(ten_min) == Ratio(ten_min, 600000)

\* what get_pool_hashrate(algo) computes at time t: float(ten_min) / 600000
get_pool_hashrate(algo, t) ==
  LET twelve_ago == t - 12 * 60
      two_ago == t - 2 * 60
      ten_min == {r \in records : r.typ = "OneMinuteShare" /\ r.user = "pool"
                                    /\ r.time >= twelve_ago /\ r.time <= two_ago}
  IN  get_pool_hashrate_of(SumValues(ten_min))

(***************************************************************************)
(* The aggregation calls                                                   *)
(***************************************************************************)
Ret(fn, a, v) == [fn |-> fn, args |-> a, val |-> v]

\* the verification path does not run
VerificationIdle ==
  /\ pc = "idle"
  /\ config = [message_expiry |-> DefaultMessageExpiry, site_title |-> "PoolSite"]
  /\ address = ""
  /\ message = <<>>
  /\ update_dict = InitUpdateDict
  /\ stamp = NoStamp
  /\ site = PyFalse
  /\ now = 0
  /\ res = NoOutcome
  /\ args = <<>>
  /\ raised = NoExc
  /\ caught = NoOutcome
  /\ calls = <<>>
  /\ pending = <<>>
  /\ settings = <<>>

InitStats ==
  /\ VerificationIdle
  /\ clock \in Clocks
  /\ records \in SetsUpTo(RecordsAt(clock), MaxRecords)
  /\ online \in Feeds
  /\ user_row \in UserRows
  /\ cache = <<>>
  /\ redis = <<>>
  /\ workers = <<>>
  /\ todo = {}
  /\ ret = NoRet

GetPoolEff ==
  /\ \E td \in Timedeltas : ret' = Ret("get_pool_eff", td, get_pool_eff(td, clock))
  /\ UNCHANGED <<verification, clock, records, online, user_row, cache, redis, workers, todo>>

\* the addresses asked for; addrC has no record
StatsAddresses == {"addrA", "addrB", "addrC"}

CollectUserStats ==
  /\ \E a \in StatsAddresses :
       ret' = Ret("collect_user_stats", <<a>>, collect_user_stats(a, clock, online, user_row))
  /\ UNCHANGED <<verification, clock, records, online, user_row, cache, redis, workers, todo>>

GetPoolHashrate ==
  /\ \E a \in Algos :
       ret' = Ret("get_pool_hashrate", <<a>>, get_pool_hashrate(a, clock))
  /\ UNCHANGED <<verification, clock, records, online, user_row, cache, redis, workers, todo>>

NextStats ==
  \/ GetPoolEff
  \/ CollectUserStats
  \/ GetPoolHashrate

SpecStats == InitStats /\ [][NextStats]_vars

\* C11: get_pool_eff returns exactly 100 when the accepted and rejected
\* totals of get_pool_acc_rej are both zero, and otherwise
\* 100 * accepted / (accepted + rejected), a value in [0, 100], with the
\* totals taken in the order get_pool_acc_rej returns them (rejected first);
\* the divisor is never zero.
C11_PoolEfficiency ==
  ret.fn = "get_pool_eff" =>
    LET rejected == get_pool_acc_rej(ret.args, clock)[1]
        accepted == get_pool_acc_rej(ret.args, clock)[2]
    IN  /\ ret.val.den # 0
        /\ (accepted = 0 /\ rejected = 0) => ret.val = Ratio(100, 1)
        /\ (accepted # 0 \/ rejected # 0) =>
             /\ ret.val.num * (accepted + rejected) = 100 * accepted * ret.val.den
             /\ ret.val.num >= 0
             /\ ret.val.num <= 100 * ret.val.den

C11_Witness ==
  /\ ret.fn = "get_pool_eff"
  /\ ret.args = <<SecondsPerDay>>
  /\ ret.val = Ratio(9000, 100)

\* the address of the last collect_user_stats call has no share and no
\* reject record at all
NoRecordsOfAddress ==
  /\ ret.fn = "collect_user_stats"
  /\ \A r \in records : <<r.user>> # ret.args

\* C12 as stated: for an address without share and reject records
\* collect_user_stats returns an empty worker list and a donation
\* percentage of 0, whatever the liveness feed and the UserSettings table
\* hold.
C12_EmptyWhateverFeedAndRow ==
  NoRecordsOfAddress =>
    /\ ret.val.workers = <<>>
    /\ ret.val.donation_perc = 0

\* C12 as amended: for an address without share and reject records
\* collect_user_stats returns without error; its worker list holds exactly
\* the workers of the liveness feed, each online with accepted 0, rejected 0
\* and last_10_shares 0, so it is empty when the feed is empty; the donation
\* percentage is that of the UserSettings row, and 0 when there is no row.
C12_EmptyUnlessFeedOrRow ==
  NoRecordsOfAddress =>
    /\ {ret.val.workers[i].name : i \in 1..Len(ret.val.workers)}
         = {online[i][1] : i \in 1..Len(online)}
    /\ \A i \in 1..Len(ret.val.workers) :
         /\ ret.val.workers[i].accepted = 0
         /\ ret.val.workers[i].rejected = 0
         /\ ret.val.workers[i].last_10_shares = 0
         /\ ret.val.workers[i].online
    /\ online = <<>> => ret.val.workers = <<>>
    /\ user_row = <<>> => ret.val.donation_perc = 0
    /\ user_row # <<>> => ret.val.donation_perc = user_row[1].hr_perc

C12_Witness ==
  /\ NoRecordsOfAddress
  /\ records # {}
  /\ online # <<>>
  /\ user_row # <<>>
  /\ Len(ret.val.workers) = 1

\* C18: in the result of collect_user_stats every worker's accepted total
\* is the sum of the values of its fetched 5-minute and 1-minute share
\* records, its rejected total the sum over its fetched reject records, and
\* its last_10_shares the sum over the fetched share records with
\* now - 12 min <= t < now - 2 min, now being the start of the current
\* minute; last_10_shares never exceeds accepted.
C18_WorkerTotals ==
  ret.fn = "collect_user_stats" =>
    LET minute == clock - (clock % 60)
        Fetched(typ) == {r \in records : r.typ = typ /\ <<r.user>> = ret.args
                           /\ r.time >= floor_time(typ, clock) - Window(typ)}
    IN  \A i \in 1..Len(ret.val.workers) :
          LET w == ret.val.workers[i]
              shares == {r \in Fetched("FiveMinuteShare") \cup Fetched("OneMinuteShare") :
                           r.worker = w.name}
              rejects == {r \in Fetched("FiveMinuteReject") \cup Fetched("OneMinuteReject") :
                            r.worker = w.name}
          IN  /\ w.accepted = SumValues(shares)
              /\ w.rejected = SumValues(rejects)
              /\ w.last_10_shares =
                   SumValues({r \in shares : minute - 720 <= r.time /\ r.time < minute - 120})
              /\ w.last_10_shares <= w.accepted

C18_Witness ==
  /\ ret.fn = "collect_user_stats"
  /\ Len(ret.val.workers) = 1
  /\ ret.val.workers[1].accepted = 5
  /\ ret.val.workers[1].last_10_shares = 1

\* C20: at every time of day collect_user_stats returns a next_payout that
\* is the next top of the hour after now and a next_exchange that is a top
\* of the hour after now; neither lies before the time of the call.
C20_NextPayoutAndExchangeAhead ==
  ret.fn = "collect_user_stats" =>
    /\ ret.val.next_payout = clock - (clock % 3600) + 3600
    /\ ret.val.next_exchange % 3600 = 0
    /\ ret.val.next_exchange > clock
    /\ ret.val.next_payout >= clock

\* equality of two quotients, each brought to lowest terms
RECURSIVE GCD(_, _)
GCD(a, b) == IF b = 0 THEN a ELSE GCD(b, a % b)

Lowest(r) ==
  LET g == GCD(r.num, r.den) IN [num |-> r.num \div g, den |-> r.den \div g]

SameRatio(a, b) == Lowest(a) = Lowest(b)

\* C19: get_pool_hashrate computes the rate of the pool as the per-user
\* last-10-minute hashrate is computed: on the same one-minute records and
\* at the same time it selects the same records (same bounds of the window,
\* included or excluded alike) and applies the same formula to their sum
\* (same hashes-per-share factor, same divisor).
C19_PoolHashrateAsPerUser ==
  ret.fn = "get_pool_hashrate" =>
    LET user == Last10Hashrate(last_10_shares("pool", clock))
        selected == {r \in records : r.typ = "OneMinuteShare" /\ r.user = "pool"
                                       /\ r.time > clock - 720 /\ r.time < clock - 120}
    IN  /\ SameRatio(ret.val, user)
        /\ SameRatio(ret.val, get_pool_hashrate_of(SumValues(selected)))

(***************************************************************************)
(* The cache in front of the aggregation calls (lines 74, 209, 223)        *)
(***************************************************************************)
\* the key cache.memoize gives a call: the function and its arguments
MemoizeKey(fn, a) == <<fn, a>>

\* the key cache.cached(key_prefix=...) gives a call: the prefix alone
CachedKey(key_prefix, a) == <<key_prefix, <<>>>>

\* an entry is served until its timeout has passed
Hit(key, t) == key \in DOMAIN cache /\ t < cache[key].expires

\* the cache after set(key, v, timeout) at time t; by is the call that
\* computed v
Store(key, v, by, t, timeout) ==
  [k \in DOMAIN cache \cup {key} |->
     IF k = key THEN [val |-> v, by |-> by, expires |-> t + timeout] ELSE cache[k]]

RetBy(fn, a, v, by) == [fn |-> fn, args |-> a, val |-> v, by |-> by]

\* redis_conn.hvals('current_block_' + suffix) of line 230, with the
\* suffix kept as its parts
Suffix(algo, merged_type) ==
  IF merged_type # None THEN <<algo, "_", merged_type[1]>> ELSE <<algo>>

RECURSIVE SumSeq(_)
SumSeq(q) == IF q = <<>> THEN 0 ELSE Head(q) + SumSeq(Tail(q))

hvals(suffix) == IF suffix \in DOMAIN redis THEN redis[suffix] ELSE <<>>

\* the body of get_round_shares(algo, merged_type) at time t
get_round_shares(algo, merged_type, t) ==
  <<SumSeq(hvals(Suffix(algo, merged_type))), t>>

RoundArgs == {<<"scrypt", None>>, <<"scrypt", <<"merged">>>>}

\* the counters of the rounds in progress
RedisStates ==
  { [s \in {<<"scrypt">>} |-> <<700, 300>>],
    [s \in {<<"scrypt">>, <<"scrypt", "_", "merged">>} |->
       IF s = <<"scrypt">> THEN <<500>> ELSE <<500, 5>>] }

\* the tables the cached calls read: empty, or the pool's records of the
\* last quarter of an hour; and the time of the first call
CacheRecordsAt(c) ==
  { {},
    {r \in RecordsAt(c) : r.user \in {"pool", "pool_stale"} /\ r.time >= c - 900} }
CacheClocks == {3 * SecondsPerDay + 36000}

\* how far the clock runs on: the longest of the two short timeouts
Horizon == 60
Steps == {30}

\* seconds since the first call
Elapsed == CHOOSE e \in 0..Horizon : clock - e \in CacheClocks

\* calling a Python function with fewer arguments than it requires
TypeError(fn) == Exc("TypeError", "takes at least 1 argument (0 given)", fn)

\* get_round_shares behind cache.memoize(timeout=30), called with the
\* arguments a at time t: the outcome and the cache it leaves
memo_get_round_shares(a, t) ==
  IF Len(a) < 1
  THEN [exc |-> TypeError("get_round_shares"), val |-> <<>>, by |-> a, cache |-> cache]
  ELSE LET full == IF Len(a) = 1 THEN <<a[1], None>> ELSE a
           key == MemoizeKey("get_round_shares", full)
           v == get_round_shares(full[1], full[2], t)
       IN  IF Hit(key, t)
           THEN [exc |-> NoExc, val |-> cache[key].val, by |-> cache[key].by, cache |-> cache]
           ELSE [exc |-> NoExc, val |-> v, by |-> full, cache |-> Store(key, v, full, t, 30)]

\* get_adj_round_shares(khashrate) at time t (lines 233-243)
get_adj_round_shares(khashrate, t) ==
  LET r == memo_get_round_shares(<<>>, t)
  IN  IF r.exc # NoExc
      THEN [exc |-> r.exc, val |-> <<>>, cache |-> r.cache]
      ELSE LET round_shares == r.val[1]
               dt == r.val[2]
               sps == khashrate * 1000
           IN  [exc |-> NoExc, val |-> <<round_shares + (t - dt) * sps, sps>>,
                cache |-> r.cache]

Khashrates == {0, 1, 25}

InitCache ==
  /\ VerificationIdle
  /\ clock \in CacheClocks
  /\ records \in CacheRecordsAt(clock)
  /\ redis \in RedisStates
  /\ online = <<>>
  /\ user_row = <<>>
  /\ cache = <<>>
  /\ workers = <<>>
  /\ todo = {}
  /\ ret = NoRet

Tick ==
  /\ \E d \in Steps :
       /\ Elapsed + d <= Horizon
       /\ clock' = clock + d
  /\ UNCHANGED <<verification, records, online, user_row, cache, redis, workers, todo, ret>>

\* get_pool_hashrate(algo) behind cache.cached(timeout=60, key_prefix='pool_hashrate')
CallGetPoolHashrate ==
  /\ \E a \in Algos :
       LET key == CachedKey("pool_hashrate", <<a>>)
           v == get_pool_hashrate(a, clock)
       IN  IF Hit(key, clock)
           THEN /\ ret' = RetBy("get_pool_hashrate", <<a>>, cache[key].val, cache[key].by)
                /\ UNCHANGED cache
           ELSE /\ ret' = RetBy("get_pool_hashrate", <<a>>, v, <<a>>)
                /\ cache' = Store(key, v, <<a>>, clock, 60)
  /\ UNCHANGED <<verification, clock, records, online, user_row, redis, workers, todo>>

\* get_round_shares(algo, merged_type) behind cache.memoize(timeout=30)
CallGetRoundShares ==
  /\ \E a \in RoundArgs :
       LET r == memo_get_round_shares(a, clock)
       IN  /\ ret' = RetBy("get_round_shares", a, r.val, r.by)
           /\ cache' = r.cache
  /\ UNCHANGED <<verification, clock, records, online, user_row, redis, workers, todo>>

\* get_pool_acc_rej(timedelta) behind cache.memoize(timeout=3600)
CallGetPoolAccRej ==
  /\ \E td \in Timedeltas :
       LET key == MemoizeKey("get_pool_acc_rej", <<td>>)
           v == get_pool_acc_rej(td, clock)
       IN  IF Hit(key, clock)
           THEN /\ ret' = RetBy("get_pool_acc_rej", <<td>>, cache[key].val, cache[key].by)
                /\ UNCHANGED cache
           ELSE /\ ret' = RetBy("get_pool_acc_rej", <<td>>, v, <<td>>)
                /\ cache' = Store(key, v, <<td>>, clock, 3600)
  /\ UNCHANGED <<verification, clock, records, online, user_row, redis, workers, todo>>

GetAdjRoundShares ==
  /\ \E k \in Khashrates :
       LET r == get_adj_round_shares(k, clock)
       IN  /\ ret' = Ret("get_adj_round_shares", <<k>>, [exc |-> r.exc, val |-> r.val])
           /\ cache' = r.cache
  /\ UNCHANGED <<verification, clock, records, online, user_row, redis, workers, todo>>

NextCache ==
  \/ Tick
  \/ CallGetPoolHashrate
  \/ CallGetRoundShares
  \/ CallGetPoolAccRej
  \/ GetAdjRoundShares

SpecCache == InitCache /\ [][NextCache]_vars

\* C13: every cached entry point is keyed by all of its arguments: within
\* the timeout, the value a call returns was computed for a call with the
\* same arguments, never for one with others (get_pool_hashrate for one
\* algorithm never returns what was computed for another; get_round_shares
\* is keyed by algorithm and merge type).
C13_KeyedByFullArguments ==
  ret.fn \in {"get_pool_hashrate", "get_round_shares", "get_pool_acc_rej"} =>
    ret.by = ret.args

\* C17: get_adj_round_shares(khashrate), khashrate >= 0, returns the cached
\* round-share count plus round(elapsed * khashrate * 1000), elapsed being
\* the seconds since the cached pair was fetched; the result is not below
\* the cached count.
C17_AdjustedRoundShares ==
  ret.fn = "get_adj_round_shares" =>
    /\ ret.val.exc = NoExc
    /\ \E a \in RoundArgs :
         LET key == MemoizeKey("get_round_shares", a)
         IN  /\ key \in DOMAIN cache
             /\ ret.val.val[1] =
                  cache[key].val[1] + (clock - cache[key].val[2]) * ret.args[1] * 1000
             /\ ret.val.val[1] >= cache[key].val[1]

(***************************************************************************)
(* compress_typ (lines 193-206)                                            *)
(***************************************************************************)
\* typ.upper: the next coarser type of a slice type
Upper(typ) ==
  CASE typ = "OneMinuteShare" -> "FiveMinuteShare"
    [] typ = "OneMinuteHashrate" -> "FiveMinuteHashrate"
    [] typ = "FiveMinuteHashrate" -> "OneHourHashrate"
    [] OTHER -> "OneHourShare"

\* calendar.timegm(dt.utctimetuple()): seconds since 1970 of a time of the
\* model's scale, which starts at 2024-01-01 00:00:00
UnixOf2024 == 1704067200
timegm(dt) == UnixOf2024 + dt

\* a slice of a device type: a share record with the device it is about
DeviceSlice(typ, user, worker, device, time, value) ==
  [typ |-> typ, user |-> user, worker |-> worker, device |-> device,
   time |-> time, value |-> value]

CompressClock == 3 * SecondsPerDay + 36000

\* the rows that may be in the tables when compress_typ runs at time c
CompressRecordsAt(c) ==
  { DeviceSlice("OneMinuteShare", "addrA", "w1", "", c - 300, 2),
    DeviceSlice("OneMinuteShare", "addrA", "w1", "", c - 240, 4),
    DeviceSlice("OneMinuteShare", "addrA", "w1", "", c - 600, 1),
    DeviceSlice("OneMinuteShare", "addrA", "w2", "", c - 300, 8),
    DeviceSlice("OneMinuteShare", "addrB", "w1", "", c - 240, 64),
    DeviceSlice("OneMinuteHashrate", "addrA", "w1", "d0", c - 300, 100),
    DeviceSlice("OneMinuteHashrate", "addrB", "w1", "d0", c - 300, 200),
    DeviceSlice("OneMinuteHashrate", "addrA", "w1", "d1", c - 300, 400),
    DeviceSlice("OneMinuteHashrate", "addrA", "w2", "d0", c - 240, 800) }

\* the mappings compress_typ may be handed
Priors(c) ==
  { EmptyMap,
    "w1" :> (timegm(c - 300) :> 7),
    ("w1" :> (timegm(c - 300) :> 7 @@ timegm(c - 900) :> 3))
       @@ ("d0" :> (timegm(c - 300) :> 9)) }

\* the key and the stamp of a row: lines 195-197 and 201-203
CompressKey(slc, worker) == IF worker # None THEN slc.device ELSE slc.worker
CompressStamp(typ, slc, worker) ==
  IF worker # None THEN timegm(floor_time(typ, slc.time))
  ELSE timegm(floor_time(Upper(typ), slc.time))

\* d.setdefault(k, v)
setdefault(d, k, v) == IF k \in DOMAIN d THEN d ELSE d @@ (k :> v)

\* lines 198-200 and 204-206 with = in the place of +=
AddSliceOverwrites(w, key, stamp_, value) ==
  LET w1 == setdefault(w, key, EmptyMap)
      w2 == [w1 EXCEPT ![key] = setdefault(w1[key], stamp_, 0)]
  IN  [w2 EXCEPT ![key][stamp_] = value]

\* lines 198-200 and 204-206
AddSlice(w, key, stamp_, value) ==
  LET w1 == setdefault(w, key, EmptyMap)
      w2 == [w1 EXCEPT ![key] = setdefault(w1[key], stamp_, 0)]
  IN  [w2 EXCEPT ![key][stamp_] = @ + value]

CompressTypes == {"OneMinuteShare", "OneMinuteHashrate"}
CompressAddresses == {None, <<"addrA">>}
CompressWorkers(typ) == IF typ = "OneMinuteHashrate" THEN {None, <<"w1">>} ELSE {None}

InitCompress ==
  /\ VerificationIdle
  /\ clock = CompressClock
  /\ records \in SetsUpTo(CompressRecordsAt(clock), MaxRecords)
  /\ workers \in Priors(clock)
  /\ online = <<>>
  /\ user_row = <<>>
  /\ cache = <<>>
  /\ redis = <<>>
  /\ todo = {}
  /\ ret = NoRet

\* compress_typ(typ, workers, address, worker) is called: line 194 runs
\* the query
CompressCall ==
  /\ ret = NoRet
  /\ \E typ \in CompressTypes, addr \in CompressAddresses :
       \E worker \in CompressWorkers(typ) :
         /\ todo' = get_typ(typ, addr, FALSE, worker, clock)
         /\ ret' = Ret("compress_typ", <<typ, workers, addr, worker>>, "running")
  /\ UNCHANGED <<verification, clock, records, online, user_row, cache, redis, workers>>

\* one turn of the loop, on whichever row the query yields next
CompressStep ==
  /\ ret.fn = "compress_typ"
  /\ ret.val = "running"
  /\ \E slc \in todo :
       LET typ == ret.args[1]
           worker == ret.args[4]
       IN  /\ workers' = AddSlice(workers, CompressKey(slc, worker),
                                  CompressStamp(typ, slc, worker), slc.value)
           /\ todo' = todo \ {slc}
  /\ UNCHANGED <<verification, clock, records, online, user_row, cache, redis, ret>>

CompressReturn ==
  /\ ret.fn = "compress_typ"
  /\ ret.val = "running"
  /\ todo = {}
  /\ ret' = [ret EXCEPT !.val = "returned"]
  /\ UNCHANGED <<verification, clock, records, online, user_row, cache, redis, workers, todo>>

NextCompress ==
  \/ CompressCall
  \/ CompressStep
  \/ CompressReturn

SpecCompress == InitCompress /\ [][NextCompress]_vars

\* the entry of a mapping, 0 where it has none
EntryOf(w, k, s) == IF k \in DOMAIN w /\ s \in DOMAIN w[k] THEN w[k][s] ELSE 0
HasEntry(w, k, s) == k \in DOMAIN w /\ s \in DOMAIN w[k]

\* C14: compress_typ is additive and independent of the order of the rows:
\* whatever rows the loop has taken so far, and in whatever order, each
\* (worker, bucket epoch) entry of the mapping is its value in the mapping
\* handed in plus the sum of the values of the rows taken that fall in that
\* bucket, the mapping has no other entries, and no entry that was there
\* is removed, overwritten or decreased; so the mapping returned depends
\* on the set of rows alone.
C14_CompressAdditive ==
  ret.fn = "compress_typ" =>
    LET typ == ret.args[1]
        prior == ret.args[2]
        worker == ret.args[4]
        rows == get_typ(typ, ret.args[3], FALSE, worker, clock)
        taken == rows \ todo
        InBucket(k, s) ==
          {r \in taken : CompressKey(r, worker) = k /\ CompressStamp(typ, r, worker) = s}
        keys == DOMAIN prior \cup {CompressKey(r, worker) : r \in taken}
        stamps(k) ==
          (IF k \in DOMAIN prior THEN DOMAIN prior[k] ELSE {})
            \cup {CompressStamp(typ, r, worker) : r \in {x \in taken : CompressKey(x, worker) = k}}
    IN  /\ todo \subseteq rows
        /\ DOMAIN workers = keys
        /\ \A k \in keys :
             /\ DOMAIN workers[k] = stamps(k)
             /\ \A s \in stamps(k) :
                  /\ workers[k][s] = EntryOf(prior, k, s) + SumValues(InBucket(k, s))
                  /\ workers[k][s] >= EntryOf(prior, k, s)
        /\ ret.val = "returned" => taken = rows

\* two rows of one device and minute, of two users, are added to an entry
\* the mapping already had; the entries of the other key are as they were
C14_Witness ==
  /\ ret.fn = "compress_typ"
  /\ ret.val = "returned"
  /\ ret.args[4] = <<"w1">>
  /\ HasEntry(ret.args[2], "d0", timegm(clock - 300))
  /\ EntryOf(ret.args[2], "d0", timegm(clock - 300)) = 9
  /\ EntryOf(workers, "d0", timegm(clock - 300)) = 309
  /\ workers["w1"] = ret.args[2]["w1"]

====
